---------------------------- MODULE Spec2Model ----------------------------
(***************************************************************************)
(* Block document model of mycms: the server's legacy-post migration       *)
(* (migratePostsIfNeeded), its plain-text extractor                        *)
(* (extractPlainTextFromBlocks), its request handlers for posts and        *)
(* sections, and the editor's block factory                                *)
(* (createBlock) and block-list handlers (updateBlock, deleteBlock,        *)
(* handleDragEnd, ColumnsBlock, GridBlock), with the JSON text they read   *)
(* modelled symbol by symbol.                                              *)
(*                                                                         *)
(* JavaScript values are records tagged by t:                              *)
(*   [t |-> "undef"], [t |-> "null"], [t |-> "bool", b], [t |-> "num", n], *)
(*   [t |-> "nan"]      the number NaN,                                    *)
(*   [t |-> "str", s]   s a sequence of symbols (the string's characters), *)
(*   [t |-> "arr", a]   a a sequence of values,                            *)
(*   [t |-> "obj", f]   f a function from property names to values.        *)
(* A symbol is one character of a string; a run of letters that the code   *)
(* never splits (type, heading, hi, ...) is written as one symbol.         *)
(***************************************************************************)
EXTENDS Integers, Sequences, FiniteSets, TLC

VARIABLES
  store,    \* data.posts in data.json, as readData() returns it
  lastIn,   \* what readData() returned to the last request served (in GET
            \* /api/posts, the argument of migratePostsIfNeeded)
  lastOut,  \* what the last migratePostsIfNeeded call returned: [threw, changed, data]
  calls,    \* number of requests served
  writes,   \* number of saveData calls made
  req,      \* the last request served: [method, id, body, file, day]
  res,      \* the response to it: [status, body]
  heap,     \* the objects and arrays a migratePostsIfNeeded call works on, by address
  ret,      \* what that call returned: [called, changed, data], data an address
  tree,     \* a block sequence handed to extractPlainTextFromBlocks
  outLines, \* the lines array of that call when walk returned
  plain,    \* the text extractPlainTextFromBlocks returned for tree
  phase,    \* "input" before the extractor ran on tree, "done" after
  blocks,   \* the editor's top-level blocks state (useState([]))
  created,  \* what the last createBlock call returned
  reqType,  \* the argument of the last createBlock call
  now,      \* Date.now(), in milliseconds since the editor was opened
  born,     \* id and type of each top-level block when createBlock returned it
  lastOp    \* the last call into renderBlockList's handlers and what it did

vars == <<store, lastIn, lastOut, calls, writes, req, res, heap, ret, tree, outLines,
          plain, phase, blocks, created, reqType, now, born, lastOp>>

---------------------------------------------------------------------------
(* JavaScript values *)

Undef == [t |-> "undef"]
Null == [t |-> "null"]
Bool(b) == [t |-> "bool", b |-> b]
Num(n) == [t |-> "num", n |-> n]
Str(s) == [t |-> "str", s |-> s]
Arr(a) == [t |-> "arr", a |-> a]
Obj(f) == [t |-> "obj", f |-> f]
NaN == [t |-> "nan"]

\* a one-symbol string such as "heading"
Word(w) == Str(<<w>>)

\* typeof v === "string", Array.isArray(v)
IsString(v) == v.t = "str"
IsArray(v) == v.t = "arr"

\* o.k for any value o (k a one-symbol property name): undefined unless o is
\* an object holding k; property names are strings, so sequences of symbols
Get(o, k) == IF o.t = "obj" /\ <<k>> \in DOMAIN o.f THEN o.f[<<k>>] ELSE Undef

\* { ...o, k: v }
With(o, k, v) ==
  Obj([x \in DOMAIN o.f \cup {<<k>>} |-> IF x = <<k>> THEN v ELSE o.f[x]])

\* the empty object literal {}
EmptyObj == Obj([x \in {} |-> Undef])

\* JavaScript truthiness (the test of if (v) and of !v)
Truthy(v) ==
  CASE v.t = "undef" -> FALSE
    [] v.t = "null" -> FALSE
    [] v.t = "bool" -> v.b
    [] v.t = "num" -> v.n # 0
    [] v.t = "nan" -> FALSE
    [] v.t = "str" -> v.s # <<>>
    [] OTHER -> TRUE

---------------------------------------------------------------------------
(* Strings: trim, startsWith, String(v) *)

\* the whitespace String.prototype.trim removes and JSON.parse skips
WhiteSpace == {" ", "\n", "\t", "\r"}

Digits == <<"0", "1", "2", "3", "4", "5", "6", "7", "8", "9">>
DigitSet == {Digits[i] : i \in 1..10}
DigitVal(c) == (CHOOSE i \in 1..10 : Digits[i] = c) - 1

RECURSIVE TrimStart(_)
TrimStart(s) ==
  IF s # <<>> /\ Head(s) \in WhiteSpace THEN TrimStart(Tail(s)) ELSE s

RECURSIVE TrimEnd(_)
TrimEnd(s) ==
  IF s # <<>> /\ s[Len(s)] \in WhiteSpace
  THEN TrimEnd(SubSeq(s, 1, Len(s) - 1))
  ELSE s

\* s.trim()
Trim(s) == TrimEnd(TrimStart(s))

\* s.startsWith(c) for a one-character c
StartsWith(s, c) == s # <<>> /\ Head(s) = c

\* the decimal digits of a natural number
RECURSIVE NumSyms(_)
NumSyms(n) ==
  IF n < 10 THEN <<Digits[n + 1]>> ELSE NumSyms(n \div 10) \o <<Digits[(n % 10) + 1]>>

\* String(v): the characters of the string JavaScript converts v to
RECURSIVE ToStr(_)
RECURSIVE JoinStr(_, _)
ToStr(v) ==
  CASE v.t = "str" -> v.s
    [] v.t = "num" -> NumSyms(v.n)
    [] v.t = "bool" -> IF v.b THEN <<"true">> ELSE <<"false">>
    [] v.t = "null" -> <<"null">>
    [] v.t = "undef" -> <<"undefined">>
    [] v.t = "nan" -> <<"NaN">>
    [] v.t = "arr" -> JoinStr(v.a, 1)
    [] OTHER -> <<"[object Object]">>
\* Array.prototype.toString: elements joined by ",", null and undefined empty
JoinStr(a, i) ==
  IF i > Len(a) THEN <<>>
  ELSE (IF a[i].t \in {"null", "undef"} THEN <<>> ELSE ToStr(a[i]))
       \o (IF i < Len(a) THEN <<",">> ELSE <<>>)
       \o JoinStr(a, i + 1)

---------------------------------------------------------------------------
(* JSON.parse, character by character *)

NoParse == [ok |-> FALSE, v |-> Undef, i |-> 0]
Parsed(v, i) == [ok |-> TRUE, v |-> v, i |-> i]

\* s[i], or "" past the end of the text
At(s, i) == IF i >= 1 /\ i <= Len(s) THEN s[i] ELSE ""

RECURSIVE SkipWs(_, _)
SkipWs(s, i) == IF At(s, i) \in WhiteSpace THEN SkipWs(s, i + 1) ELSE i

\* the characters of a string literal after its opening quote
RECURSIVE ParseChars(_, _, _)
ParseChars(s, i, acc) ==
  LET c == At(s, i) IN
  CASE c = "" -> NoParse
    [] c = "\"" -> Parsed(Str(acc), i + 1)
    [] c \in {"\n", "\t", "\r"} -> NoParse
    [] c = "\\" ->
         LET e == At(s, i + 1) IN
         CASE e = "n" -> ParseChars(s, i + 2, Append(acc, "\n"))
           [] e = "t" -> ParseChars(s, i + 2, Append(acc, "\t"))
           [] e = "r" -> ParseChars(s, i + 2, Append(acc, "\r"))
           [] e \in {"\"", "\\", "/"} -> ParseChars(s, i + 2, Append(acc, e))
           [] OTHER -> NoParse
    [] OTHER -> ParseChars(s, i + 1, Append(acc, c))

\* a run of digits starting at i: [n, i], i the index after the run
RECURSIVE ParseDigits(_, _, _)
ParseDigits(s, i, n) ==
  IF At(s, i) \in DigitSet
  THEN ParseDigits(s, i + 1, 10 * n + DigitVal(At(s, i)))
  ELSE [n |-> n, i |-> i]

RECURSIVE ParseValue(_, _)
RECURSIVE ParseElems(_, _, _)
RECURSIVE ParseMembers(_, _, _)

\* after the value r of an array element, at k: a comma and more, or the end
ElemsNext(s, k, r, acc) ==
  CASE At(s, k) = "," -> ParseElems(s, SkipWs(s, k + 1), Append(acc, r.v))
    [] At(s, k) = "]" -> Parsed(Arr(Append(acc, r.v)), k + 1)
    [] OTHER -> NoParse

ElemsAfter(s, r, acc) ==
  IF ~r.ok THEN NoParse ELSE ElemsNext(s, SkipWs(s, r.i), r, acc)

\* the elements of an array, the first of them at i
ParseElems(s, i, acc) == ElemsAfter(s, ParseValue(s, i), acc)

\* after a member of an object, at k: a comma and more, or the end
MemberNext(s, k, o) ==
  CASE At(s, k) = "," -> ParseMembers(s, SkipWs(s, k + 1), o)
    [] At(s, k) = "}" -> Parsed(o, k + 1)
    [] OTHER -> NoParse

\* the member name: r; a repeated name keeps its last value
MemberValue(s, name, r, o) ==
  IF ~r.ok THEN NoParse
  ELSE MemberNext(s, SkipWs(s, r.i),
                  Obj([x \in DOMAIN o.f \cup {name} |-> IF x = name THEN r.v ELSE o.f[x]]))

MemberColon(s, name, c, o) ==
  IF At(s, c) # ":" THEN NoParse
  ELSE MemberValue(s, name, ParseValue(s, SkipWs(s, c + 1)), o)

MemberKey(s, key, o) ==
  IF ~key.ok THEN NoParse ELSE MemberColon(s, key.v.s, SkipWs(s, key.i), o)

\* the members of an object, the first name at i
ParseMembers(s, i, o) ==
  IF At(s, i) # "\"" THEN NoParse ELSE MemberKey(s, ParseChars(s, i + 1, <<>>), o)

\* a number: a run of digits (one with a leading zero is not JSON)
NumberOf(d) == Parsed(Num(d.n), d.i)

ParseValue(s, i) ==
  LET c == At(s, i) IN
  CASE c = "[" ->
         IF At(s, SkipWs(s, i + 1)) = "]" THEN Parsed(Arr(<<>>), SkipWs(s, i + 1) + 1)
         ELSE ParseElems(s, SkipWs(s, i + 1), <<>>)
    [] c = "{" ->
         IF At(s, SkipWs(s, i + 1)) = "}" THEN Parsed(EmptyObj, SkipWs(s, i + 1) + 1)
         ELSE ParseMembers(s, SkipWs(s, i + 1), EmptyObj)
    [] c = "\"" -> ParseChars(s, i + 1, <<>>)
    [] c = "null" -> Parsed(Null, i + 1)
    [] c = "true" -> Parsed(Bool(TRUE), i + 1)
    [] c = "false" -> Parsed(Bool(FALSE), i + 1)
    [] c \in DigitSet ->
         IF c = "0" /\ At(s, i + 1) \in DigitSet THEN NoParse
         ELSE NumberOf(ParseDigits(s, i, 0))
    [] OTHER -> NoParse

\* the whole text must be one value, white space around it allowed
ParseWhole(s, r) ==
  IF r.ok /\ SkipWs(s, r.i) = Len(s) + 1
  THEN [threw |-> FALSE, v |-> r.v]
  ELSE [threw |-> TRUE, v |-> Undef]

\* JSON.parse(s) for a string s: the value, or threw = TRUE for a SyntaxError
JSONparse(s) == ParseWhole(s, ParseValue(s, SkipWs(s, 1)))

---------------------------------------------------------------------------
(* JSON.stringify, as the editor applies it to its blocks before a save *)

\* the characters of a string inside a JSON string literal
RECURSIVE Escape(_)
Escape(s) ==
  IF s = <<>> THEN <<>>
  ELSE LET c == Head(s) IN
       (CASE c = "\n" -> <<"\\", "n">>
          [] c = "\t" -> <<"\\", "t">>
          [] c = "\r" -> <<"\\", "r">>
          [] c \in {"\"", "\\"} -> <<"\\", c>>
          [] OTHER -> <<c>>) \o Escape(Tail(s))

Quote(s) == <<"\"">> \o Escape(s) \o <<"\"">>

RECURSIVE Stringify(_)
RECURSIVE StringifyElems(_, _)
RECURSIVE StringifyMembers(_, _, _)
Stringify(v) ==
  CASE v.t = "str" -> Quote(v.s)
    [] v.t = "num" -> NumSyms(v.n)
    [] v.t = "bool" -> IF v.b THEN <<"true">> ELSE <<"false">>
    [] v.t = "arr" -> <<"[">> \o StringifyElems(v.a, 1) \o <<"]">>
    [] v.t = "obj" ->
         <<"{">> \o StringifyMembers(v, {k \in DOMAIN v.f : v.f[k].t # "undef"}, TRUE)
                 \o <<"}">>
    [] OTHER -> <<"null">>
StringifyElems(a, i) ==
  IF i > Len(a) THEN <<>>
  ELSE Stringify(a[i]) \o (IF i < Len(a) THEN <<",">> ELSE <<>>)
       \o StringifyElems(a, i + 1)
\* the members named in keys (undefined ones are left out), in some fixed order
StringifyMembers(o, keys, first) ==
  IF keys = {} THEN <<>>
  ELSE LET k == CHOOSE x \in keys : TRUE IN
       (IF first THEN <<>> ELSE <<",">>)
       \o Quote(k) \o <<":">> \o Stringify(o.f[k])
       \o StringifyMembers(o, keys \ {k}, FALSE)

---------------------------------------------------------------------------
(* The server: tryParseJson, extractPlainTextFromBlocks, migratePostsIfNeeded *)

\* the catch clause of tryParseJson: an exception becomes null
catchNull(r) == IF r.threw THEN [threw |-> FALSE, v |-> Null] ELSE r

\* tryParseJson without its try/catch: the SyntaxError leaves the function
tryParseJsonNoCatch(str) == JSONparse(str)

\* try { return JSON.parse(str) } catch { return null }
tryParseJson(str) == catchNull(JSONparse(str))

\* pushContent without the if (node.content) guard
pushContentAlways(node, lines) == Append(lines, ToStr(Get(node, "content")))

\* heading and paragraph: if (node.content) lines.push(String(node.content))
pushContent(node, lines) ==
  IF Truthy(Get(node, "content"))
  THEN Append(lines, ToStr(Get(node, "content")))
  ELSE lines

\* the columns visited last to first
columnOrderReversed(n) == [i \in 1..n |-> n + 1 - i]

\* the order in which a columns block's column arrays are visited (forEach)
columnOrder(n) == [i \in 1..n |-> i]

RECURSIVE walk(_, _)
RECURSIVE walkEach(_, _, _)
RECURSIVE walkColumns(_, _, _)
\* walk(node), lines being the array it pushes to; the result is lines afterwards
walk(node, lines) ==
  IF ~Truthy(node) THEN lines
  ELSE IF IsArray(node) THEN walkEach(node.a, 1, lines)
  ELSE LET type == Get(node, "type")
           children == Get(node, "children")
       IN IF type = Word("heading") \/ type = Word("paragraph")
          THEN pushContent(node, lines)
          ELSE IF type = Word("columns")
          THEN (IF IsArray(children)
                THEN walkColumns(children.a, columnOrder(Len(children.a)), lines)
                ELSE lines)
          ELSE IF type = Word("grid")
          THEN (IF IsArray(children) THEN walkEach(children.a, 1, lines) ELSE lines)
          ELSE lines
\* a.forEach(walk), from index i on
walkEach(a, i, lines) ==
  IF i > Len(a) THEN lines ELSE walkEach(a, i + 1, walk(a[i], lines))
\* children.forEach((col) => Array.isArray(col) && col.forEach(walk))
walkColumns(cols, order, lines) ==
  IF order = <<>> THEN lines
  ELSE LET col == cols[Head(order)] IN
       walkColumns(cols, Tail(order),
                   IF IsArray(col) THEN walkEach(col.a, 1, lines) ELSE lines)

\* every line followed by a newline, the last one too
RECURSIVE joinLinesTrailing(_)
joinLinesTrailing(lines) ==
  IF lines = <<>> THEN <<>>
  ELSE lines[1] \o <<"\n">> \o joinLinesTrailing(Tail(lines))

\* lines.join("\n")
RECURSIVE joinLines(_)
joinLines(lines) ==
  IF lines = <<>> THEN <<>>
  ELSE IF Len(lines) = 1 THEN lines[1]
  ELSE lines[1] \o <<"\n">> \o joinLines(Tail(lines))

\* the lines array when walk(blocks) returns
extractLines(b) == walk(b, <<>>)

extractPlainTextFromBlocks(b) == joinLines(extractLines(b))

\* the heuristic without trim()
looksLikeJsonNoTrim(content) == IsString(content) /\ StartsWith(content.s, "[")

\* typeof content === "string" && content.trim().startsWith("[")
looksLikeJson(content) == IsString(content) /\ StartsWith(Trim(content.s), "[")

\* what a step of the loop body hands on: the post, and whether it was changed
Step(post, changed) == [threw |-> FALSE, post |-> post, changed |-> changed]
Thrown(post) == [threw |-> TRUE, post |-> post, changed |-> FALSE]

\* post.blocks = parsed, and content derived when it still looks like JSON
step1Adopt(p1, parsed) ==
  Step(IF looksLikeJson(Get(p1, "content"))
       THEN With(p1, "content", Str(extractPlainTextFromBlocks(parsed)))
       ELSE p1,
       TRUE)

step1Parsed(post, parsed) ==
  IF parsed.threw THEN Thrown(post)
  ELSE IF IsArray(parsed.v) THEN step1Adopt(With(post, "blocks", parsed.v), parsed.v)
  ELSE Step(post, FALSE)

\* the first if with changed = true outside the Array.isArray test
migrateStep1MarksAlways(post) ==
  IF IsString(Get(post, "blocks"))
  THEN [step1Parsed(post, tryParseJson(Get(post, "blocks").s)) EXCEPT !.changed = TRUE]
  ELSE Step(post, FALSE)

\* the first if of the loop body: blocks is a JSON string
migrateStep1(post) ==
  IF IsString(Get(post, "blocks"))
  THEN step1Parsed(post, tryParseJson(Get(post, "blocks").s))
  ELSE Step(post, FALSE)

\* the guard without its !Array.isArray(post.blocks) test
step2GuardNoArrayTest(post) == looksLikeJson(Get(post, "content"))

\* the guard of the second if of the loop body
step2Guard(post) ==
  ~IsArray(Get(post, "blocks")) /\ looksLikeJson(Get(post, "content"))

\* the second if adopting the blocks and leaving content as it was
step2AdoptKeepsContent(post, parsed) == Step(With(post, "blocks", parsed), TRUE)

\* post.blocks = parsed; post.content = extractPlainTextFromBlocks(parsed)
step2Adopt(post, parsed) ==
  Step(With(With(post, "blocks", parsed),
            "content", Str(extractPlainTextFromBlocks(parsed))),
       TRUE)

step2Parsed(post, parsed) ==
  IF parsed.threw THEN Thrown(post)
  ELSE IF IsArray(parsed.v) THEN step2Adopt(post, parsed.v)
  ELSE Step(post, FALSE)

\* the second if of the loop body: blocks is no array, content holds a JSON array
migrateStep2(post) ==
  IF step2Guard(post)
  THEN step2Parsed(post, tryParseJson(Get(post, "content").s))
  ELSE Step(post, FALSE)

\* changed is one variable of the function: either if may set it
bodyJoin(s1, s2) ==
  [threw |-> s2.threw, post |-> s2.post, changed |-> s1.changed \/ s2.changed]

bodyAfter1(s1) == IF s1.threw THEN s1 ELSE bodyJoin(s1, migrateStep2(s1.post))

\* one iteration of for (const post of out.posts): the two ifs in sequence
migrateBody(post) == bodyAfter1(migrateStep1(post))

\* ({ ...p }): an object's own properties; none for null, undefined, a number
spreadCopy(p) == IF p.t = "obj" THEN p ELSE EmptyObj

\* the loop's variables after an iteration returned r
loopJoin(acc, r) ==
  [threw |-> r.threw, posts |-> Append(acc.posts, r.post),
   changed |-> acc.changed \/ r.changed]

\* the loop over out.posts from index i on; acc = [threw, posts, changed]
RECURSIVE migrateLoop(_, _, _)
migrateLoop(posts, i, acc) ==
  IF i > Len(posts) \/ acc.threw THEN acc
  ELSE migrateLoop(posts, i + 1, loopJoin(acc, migrateBody(spreadCopy(posts[i]))))

\* return { changed, data: out }; threw = TRUE stands for an exception leaving
\* the function (then nothing is returned)
migrateReturn(data, r) ==
  IF r.threw THEN [threw |-> TRUE, changed |-> FALSE, data |-> Undef]
  ELSE [threw |-> FALSE, changed |-> r.changed,
        data |-> With(spreadCopy(data), "posts", Arr(r.posts))]

\* out.posts = Array.isArray(out.posts) ? out.posts.map((p) => ({ ...p })) : []
postsOf(data) == IF IsArray(Get(data, "posts")) THEN Get(data, "posts").a ELSE <<>>

migratePostsIfNeeded(data) ==
  migrateReturn(data,
                migrateLoop(postsOf(data), 1,
                            [threw |-> FALSE, posts |-> <<>>, changed |-> FALSE]))

---------------------------------------------------------------------------
(* migratePostsIfNeeded on objects with identity *)

\* The heap is a sequence of cells, an object's or array's address being its
\* position. A cell is an object or array value whose properties or elements
\* are values or references [t |-> "ref", at |-> address]: the data object
\* refers to its posts array, the posts array to its post objects. What a post
\* holds (its blocks, its content) is written inline: the function replaces
\* these properties and never changes the values they held.
Ref(k) == [t |-> "ref", at |-> k]

\* the value at the end of a reference, references inside it followed
RECURSIVE Deref(_, _)
Deref(h, v) ==
  CASE v.t = "ref" -> Deref(h, h[v.at])
    [] v.t = "arr" -> Arr([i \in 1..Len(v.a) |-> Deref(h, v.a[i])])
    [] v.t = "obj" -> Obj([k \in DOMAIN v.f |-> Deref(h, v.f[k])])
    [] OTHER -> v

\* readData's result as objects: the data object at 1, its posts array at 2,
\* the posts from 3 on
Load(data) ==
  <<With(data, "posts", Ref(2)), Arr([i \in 1..Len(postsOf(data)) |-> Ref(2 + i)])>>
  \o postsOf(data)

\* ({ ...p }): the own properties of the object p refers to
spreadCell(h, p) == IF p.t = "ref" THEN h[p.at] ELSE spreadCopy(p)

\* a map callback that returns p itself
sharedPost(h, p) == [heap |-> h, ref |-> p]

\* (p) => ({ ...p }): a new object
copiedPost(h, p) == [heap |-> Append(h, spreadCell(h, p)), ref |-> Ref(Len(h) + 1)]

\* out.posts.map((p) => ({ ...p })) from index i on; refs are the new elements
RECURSIVE mapCopy(_, _, _, _)
mapCopyNext(elems, i, refs, c) == mapCopy(c.heap, elems, i + 1, Append(refs, c.ref))
mapCopy(h, elems, i, refs) ==
  IF i > Len(elems) THEN [heap |-> h, refs |-> refs]
  ELSE mapCopyNext(elems, i, refs, copiedPost(h, elems[i]))

\* for (const post of out.posts): the loop body assigns to the object post
\* refers to
RECURSIVE heapLoop(_, _, _, _)
heapLoopNext(h, refs, i, changed, r) ==
  heapLoop([h EXCEPT ![refs[i].at] = r.post], refs, i + 1, changed \/ r.changed)
heapLoop(h, refs, i, changed) ==
  IF i > Len(refs) THEN [heap |-> h, changed |-> changed]
  ELSE heapLoopNext(h, refs, i, changed, migrateBody(h[refs[i].at]))

\* Array.isArray(out.posts)
postsIsArray(h, out) ==
  Get(h[out], "posts").t = "ref" /\ h[Get(h[out], "posts").at].t = "arr"

\* return { changed, data: out }
heapReturn(out, l) == [heap |-> l.heap, changed |-> l.changed, data |-> Ref(out)]

\* out.posts = the new array, then the loop over it
heapAssign(out, m) ==
  heapReturn(out,
             heapLoop([Append(m.heap, Arr(m.refs)) EXCEPT
                         ![out] = With(m.heap[out], "posts", Ref(Len(m.heap) + 1))],
                      m.refs, 1, FALSE))

\* const out = { ...data } is at address out of h
heapMap(h, out) ==
  heapAssign(out,
             IF postsIsArray(h, out)
             THEN mapCopy(h, h[Get(h[out], "posts").at].a, 1, <<>>)
             ELSE [heap |-> h, refs |-> <<>>])

\* migratePostsIfNeeded(data), data the object at address at
migrateOnHeap(h, at) == heapMap(Append(h, h[at]), Len(h) + 1)

---------------------------------------------------------------------------
(* The editor: createBlock *)

\* the resolution of Math.random() once it is added to Date.now(): it takes
\* the values r / RandSteps, r \in 0..RandSteps-1, and an id is kept as the
\* integer (Date.now() + Math.random()) * RandSteps
RandSteps == 2

\* the type field of the entries of blockTypes
Variants == {"heading", "paragraph", "image", "columns", "grid"}

\* an object literal with the properties named in a record
Lit(r) == Obj([k \in {<<x>> : x \in DOMAIN r} |-> r[k[1]]])

\* { ...a, ...b }
Spread(a, b) ==
  Obj([k \in DOMAIN a.f \cup DOMAIN b.f |-> IF k \in DOMAIN b.f THEN b.f[k] ELSE a.f[k]])

\* a factory whose columns block starts with a single column sequence
createBlockOneColumn(type, t, r) ==
  Spread(Lit([id |-> Num(t * RandSteps + r), type |-> Word(type), size |-> Word("full")]),
         IF type = "columns"
         THEN Lit([columns |-> Num(2), children |-> Arr(<<Arr(<<>>)>>)])
         ELSE Lit([content |-> Str(<<>>)]))

\* createBlock(type) when Date.now() returns t and Math.random() returns r / RandSteps
createBlock(type, t, r) ==
  LET base == Lit([id |-> Num(t * RandSteps + r), type |-> Word(type),
                   size |-> Word("full")])
  IN CASE type = "heading" ->
            Spread(base, Lit([content |-> Str(<<>>), level |-> Num(2)]))
       [] type = "paragraph" -> Spread(base, Lit([content |-> Str(<<>>)]))
       [] type = "image" -> Spread(base, Lit([url |-> Str(<<>>), alt |-> Str(<<>>)]))
       [] type = "columns" ->
            Spread(base, Lit([columns |-> Num(2),
                              children |-> Arr(<<Arr(<<>>), Arr(<<>>)>>)]))
       [] type = "grid" ->
            Spread(base, Lit([cols |-> Num(3), gap |-> Num(16), children |-> Arr(<<>>)]))
       [] OTHER -> base

\* an update that adds the block when no element has the id
updateBlockUpserts(blocksList, id, updated) ==
  IF \E i \in 1..Len(blocksList) : Get(blocksList[i], "id") = id
  THEN [i \in 1..Len(blocksList) |->
          IF Get(blocksList[i], "id") = id THEN updated ELSE blocksList[i]]
  ELSE Append(blocksList, updated)

\* renderBlockList's updateBlock(id, updated): the list it hands to setBlocksList
updateBlock(blocksList, id, updated) ==
  [i \in 1..Len(blocksList) |->
     IF Get(blocksList[i], "id") = id THEN updated ELSE blocksList[i]]

\* renderBlockList's deleteBlock(id): the list it hands to setBlocksList
deleteBlock(blocksList, id) == SelectSeq(blocksList, LAMBDA b : Get(b, "id") # id)

\* ColumnsBlock's addToColumn(idx, type), made being what createBlock(type)
\* returned: the block it hands to onUpdate (idx counts from 1 here)
addToColumn(block, idx, made) ==
  With(block, "children",
       Arr([Get(block, "children").a EXCEPT ![idx] = Arr(@.a \o <<made>>)]))

\* blocksList.findIndex((b) => b.id === id), from index i on (counting from 0)
RECURSIVE findIndexFrom(_, _, _)
findIndexFrom(list, id, i) ==
  IF i >= Len(list) THEN -1
  ELSE IF Get(list[i + 1], "id") = id THEN i
  ELSE findIndexFrom(list, id, i + 1)
findIndex(list, id) == findIndexFrom(list, id, 0)

\* where array.splice(start, ...) begins in an array of length len
spliceStart(len, start) ==
  IF start < 0 THEN (IF len + start < 0 THEN 0 ELSE len + start)
  ELSE IF start > len THEN len ELSE start

\* array.splice(start, 1): what it removes ([0] of the returned array) and
\* the array afterwards
spliceOut(array, at) ==
  IF at < Len(array)
  THEN [item |-> array[at + 1],
        rest |-> SubSeq(array, 1, at) \o SubSeq(array, at + 2, Len(array))]
  ELSE [item |-> Undef, rest |-> array]

\* a splice that puts the item in the place of the element at the index
spliceInOver(array, at, item) ==
  SubSeq(array, 1, at) \o <<item>> \o SubSeq(array, at + 2, Len(array))

\* array.splice(start, 0, item): the array afterwards
spliceIn(array, at, item) ==
  SubSeq(array, 1, at) \o <<item>> \o SubSeq(array, at + 1, Len(array))

\* an exchange of the two positions instead of a move
arraySwap(array, from, to) ==
  IF from \in 0..(Len(array) - 1) /\ to \in 0..(Len(array) - 1)
  THEN [i \in 1..Len(array) |->
          IF i = from + 1 THEN array[to + 1]
          ELSE IF i = to + 1 THEN array[from + 1] ELSE array[i]]
  ELSE array

\* arrayMove of @dnd-kit/sortable: splice the element at from out of a copy
\* and splice it in at to; the target index is computed from the length the
\* copy has before the element is taken out
arrayMoveAt(cut, to) == spliceIn(cut.rest, spliceStart(Len(cut.rest), to), cut.item)
arrayMove(array, from, to) ==
  arrayMoveAt(spliceOut(array, spliceStart(Len(array), from)),
              IF to < 0 THEN Len(array) + to ELSE to)

\* over?.id
optId(over) == IF over.t \in {"null", "undef"} THEN Undef ELSE Get(over, "id")

\* handleDragEnd without a test that both ids are in the list
dragMove(active, over, blocksList) ==
  [set |-> TRUE, threw |-> FALSE,
   out |-> arrayMove(blocksList, findIndex(blocksList, Get(active, "id")),
                     findIndex(blocksList, Get(over, "id")))]

\* handleDragEnd(event, blocksList, setBlocksList) with event = {active, over}:
\* whether setBlocksList was called and with what, or whether reading over.id
\* of a null over raised; the findIndex callback runs once per element
handleDragEnd(active, over, blocksList) ==
  IF Get(active, "id") = optId(over)
  THEN [set |-> FALSE, threw |-> FALSE, out |-> <<>>]
  ELSE IF over.t \in {"null", "undef"} /\ blocksList # <<>>
  THEN [set |-> FALSE, threw |-> TRUE, out |-> <<>>]
  ELSE dragMove(active, over, blocksList)

\* a count change that leaves the column sequences as they were
setColumnsKeepsChildren(block, cols) == With(block, "columns", Num(cols))

\* ColumnsBlock's select onChange with e.target.value = cols: the block it
\* hands to onUpdate
setColumns(block, cols) ==
  Spread(block,
         Lit([columns |-> Num(cols),
              children |-> Arr([i \in 1..cols |->
                IF i <= Len(Get(block, "children").a)
                   /\ Truthy(Get(block, "children").a[i])
                THEN Get(block, "children").a[i]
                ELSE Arr(<<>>)])]))

\* ColumnsBlock's updateColumn(idx, newChildren): the block it hands to
\* onUpdate (idx counts from 1 here)
updateColumn(block, idx, newChildren) ==
  With(block, "children", Arr([Get(block, "children").a EXCEPT ![idx] = newChildren]))

\* GridBlock's addChild(type): the block it hands to onUpdate
addChild(block, made) ==
  With(block, "children", Arr(Get(block, "children").a \o <<made>>))

\* the blocks of a list with those nested in its columns and grids
RECURSIVE Nested(_)
RECURSIVE NestedEach(_, _)
Nested(b) ==
  IF IsArray(b) THEN NestedEach(b.a, 1)
  ELSE IF b.t = "obj" THEN <<b>> \o Nested(Get(b, "children"))
  ELSE <<>>
NestedEach(a, i) == IF i > Len(a) THEN <<>> ELSE Nested(a[i]) \o NestedEach(a, i + 1)

\* how many blocks the document holds at all levels
NumBlocks(list) == Len(NestedEach(list, 1))

\* no handler of renderBlockList has been called
NoOp == [name |-> "none", list |-> <<>>, id |-> Undef, arg |-> Undef,
         set |-> FALSE, out |-> <<>>, threw |-> FALSE]

---------------------------------------------------------------------------
(* The server: the request handlers for posts and sections *)

\* a === b for two values that are no objects: NaN equals nothing
StrictEq(a, b) == a.t # "nan" /\ a = b

\* parseInt(v): String(v) without its leading white space, read as far as it
\* is decimal digits; NaN when it begins with none (no request carries a sign)
parseIntOf(d) == IF d.i = 1 THEN NaN ELSE Num(d.n)
parseInt(v) == parseIntOf(ParseDigits(TrimStart(ToStr(v)), 1, 0))

\* saveData then readData: JSON.stringify(data, null, 2) is written and
\* JSON.parse reads it back (the indentation is white space the parser skips)
saved(data) == JSONparse(Stringify(data)).v

\* data.posts and data.sections of what readData returned
sectionsOf(data) ==
  IF IsArray(Get(data, "sections")) THEN Get(data, "sections").a ELSE <<>>

\* hasId: posts.some((p) => String(p.id) === String(x)), x given as String(x)
hasId(posts, x) == \E i \in 1..Len(posts) : ToStr(Get(posts[i], "id")) = x

\* while (hasId(id)) id = `${baseId}-${n++}`
RECURSIVE uniqueFrom(_, _, _, _)
uniqueFrom(baseId, posts, id, n) ==
  IF hasId(posts, id)
  THEN uniqueFrom(baseId, posts, baseId \o <<"-">> \o NumSyms(n), n + 1)
  ELSE id

\* ensureUniqueId(baseId, posts), baseId a string: let id = baseId; let n = 2
ensureUniqueId(baseId, posts) == uniqueFrom(baseId, posts, baseId, 2)

\* if (typeof body.blocks === "string") blocks = tryParseJson(body.blocks)
blocksFromString(str) == tryParseJson(str).v

\* let blocks = null; if (body && body.blocks) { string: parse it; array: take it }
bodyBlocks(body) ==
  IF Truthy(body) /\ Truthy(Get(body, "blocks"))
  THEN (IF IsString(Get(body, "blocks")) THEN blocksFromString(Get(body, "blocks").s)
        ELSE IF IsArray(Get(body, "blocks")) THEN Get(body, "blocks")
        ELSE Null)
  ELSE Null

\* if (!blocks && body && typeof body.content === "string"): the content is
\* parsed, and taken as the blocks when it is an array
contentBlocks(body, found) ==
  IF ~Truthy(found) /\ Truthy(body) /\ IsString(Get(body, "content"))
     /\ IsArray(tryParseJson(Get(body, "content").s).v)
  THEN tryParseJson(Get(body, "content").s).v
  ELSE found

\* a body parser that hands back the plain text the body carried
plainOfStale(body, found) ==
  IF IsString(Get(body, "content")) THEN Get(body, "content") ELSE Str(<<>>)

\* const plain = extractPlainTextFromBlocks(blocks)
plainOf(body, found) == Str(extractPlainTextFromBlocks(found))

\* if (blocks) return { blocks, plain }; return { blocks: null, plain: null }
bodyResult(body, found) ==
  IF Truthy(found) THEN [blocks |-> found, plain |-> plainOf(body, found)]
  ELSE [blocks |-> Null, plain |-> Null]

parseBlocksAndPlainTextFromBody(body) ==
  bodyResult(body, contentBlocks(body, bodyBlocks(body)))

\* req.body.id !== undefined ? String(req.body.id).trim() : "", and
\* providedIdRaw || formatDefaultId(), day being today's date as
\* toISOString().split('T')[0] gives it
baseIdOf(body, day) ==
  IF Get(body, "id") # Undef /\ Trim(ToStr(Get(body, "id"))) # <<>>
  THEN Trim(ToStr(Get(body, "id")))
  ELSE day

\* a || b
Or(a, b) == IF Truthy(a) THEN a ELSE b

\* req.file ? `/uploads/${req.file.filename}` : otherwise
imageOf(file, otherwise) ==
  IF Truthy(file) THEN Str(<<"/uploads/">> \o ToStr(Get(file, "filename"))) ELSE otherwise

\* plain !== null ? plain : (typeof req.body.content === "string" ? req.body.content : otherwise)
contentOf(pb, body, otherwise) ==
  IF pb.plain # Null THEN pb.plain
  ELSE IF IsString(Get(body, "content")) THEN Get(body, "content")
  ELSE otherwise

\* the newPost literal of POST /api/posts
newPost(id, body, file, day, pb) ==
  Lit([id |-> Str(id),
       title |-> Or(Get(body, "title"), Str(<<>>)),
       content |-> contentOf(pb, body, Str(<<>>)),
       blocks |-> pb.blocks,
       image |-> imageOf(file, Null),
       date |-> Str(day),
       sectionId |-> Or(parseInt(Get(body, "sectionId")), Num(1))])

\* a handler that stores the post under the requested id, taken or not
postIdAsGiven(body, day, posts) == baseIdOf(body, day)

\* const id = ensureUniqueId(baseId, data.posts || [])
postId(body, day, posts) == ensureUniqueId(baseIdOf(body, day), posts)

\* POST /api/posts on data: the post it pushes
postedPost(data, body, file, day) ==
  newPost(postId(body, day, postsOf(data)), body, file, day,
          parseBlocksAndPlainTextFromBody(body))

\* data.posts.push(newPost)
postedData(data, body, file, day) ==
  With(data, "posts", Arr(Append(postsOf(data), postedPost(data, body, file, day))))

\* data.posts.findIndex(p => String(p.id) === postId), 1-based; 0 for -1
RECURSIVE postIndexFrom(_, _, _)
postIndexFrom(posts, id, i) ==
  IF i > Len(posts) THEN 0
  ELSE IF ToStr(Get(posts[i], "id")) = id THEN i
  ELSE postIndexFrom(posts, id, i + 1)
postIndex(posts, id) == postIndexFrom(posts, id, 1)

\* the object PUT /api/posts/:id puts at postIndex
putPost(existingPost, body, file, pb) ==
  Spread(existingPost,
         Lit([title |-> Or(Get(body, "title"), Get(existingPost, "title")),
              content |-> contentOf(pb, body, Get(existingPost, "content")),
              blocks |-> IF pb.blocks # Null THEN pb.blocks
                         ELSE Or(Get(existingPost, "blocks"), Null),
              sectionId |-> IF Truthy(Get(body, "sectionId"))
                            THEN parseInt(Get(body, "sectionId"))
                            ELSE Get(existingPost, "sectionId"),
              image |-> imageOf(file, Get(existingPost, "image"))]))

\* data.posts[postIndex] = { ...existingPost, ... }
putData(data, k, body, file) ==
  With(data, "posts",
       Arr([postsOf(data) EXCEPT ![k] =
              putPost(postsOf(data)[k], body, file, parseBlocksAndPlainTextFromBody(body))]))

\* a handler that removes every post from postIndex on
spliceToEnd(posts, k) == SubSeq(posts, 1, k - 1)

\* data.posts.splice(postIndex, 1)
spliceOne(posts, k) == SubSeq(posts, 1, k - 1) \o SubSeq(posts, k + 1, Len(posts))

\* a section delete that keeps the section's posts
keepPosts(posts, sectionId) == posts

\* data.posts.filter(p => p.sectionId !== sectionId)
otherPosts(posts, sectionId) ==
  SelectSeq(posts, LAMBDA p : ~StrictEq(Get(p, "sectionId"), sectionId))

\* data.sections.filter(s => s.id !== sectionId)
otherSections(sections, sectionId) ==
  SelectSeq(sections, LAMBDA x : ~StrictEq(Get(x, "id"), sectionId))

\* DELETE /api/sections/:id on data: both filters
sectionDeleted(data, sectionId) ==
  With(With(data, "sections", Arr(otherSections(sectionsOf(data), sectionId))),
       "posts", Arr(otherPosts(postsOf(data), sectionId)))

\* res.status(404).json({ error: ... }), res.json({ success: true })
NotFound == [status |-> 404, body |-> Lit([error |-> Str(<<"not found">>)])]
Success == [status |-> 200, body |-> Lit([success |-> Bool(TRUE)])]
Json(v) == [status |-> 200, body |-> v]

---------------------------------------------------------------------------
(* Bounds and the inputs drawn within them *)

MaxPosts == 2    \* posts in data.json
MaxCalls == 2    \* GET /api/posts requests in one run
MaxNodes == 3    \* nodes (blocks and null entries) in an extracted tree
MaxBlocks == 2   \* blocks the editor's document holds, at all levels
MaxNow == 1      \* milliseconds the editor's clock advances

MaxList == 3     \* blocks in a list handed to updateBlock, deleteBlock, handleDragEnd
MaxIds == 3      \* distinct ids among those blocks

\* blocks as they are stored: what JSON.parse returns for the editor's blocks
Heading(c) == Lit([type |-> Word("heading"), size |-> Word("full"),
                   content |-> Str(c), level |-> Num(2)])
Paragraph(c) == Lit([type |-> Word("paragraph"), size |-> Word("full"),
                     content |-> Str(c)])
Image == Lit([type |-> Word("image"), size |-> Word("full"),
              url |-> Str(<<>>), alt |-> Str(<<>>)])
Columns(cols) == Lit([type |-> Word("columns"), size |-> Word("full"),
                      columns |-> Num(Len(cols)), children |-> Arr(cols)])
Grid(ch) == Lit([type |-> Word("grid"), size |-> Word("full"),
                 cols |-> Num(3), gap |-> Num(16), children |-> Arr(ch)])

\* one-node trees: text blocks with and without text, an image, a null entry
Leaves == {Heading(<<>>), Heading(<<"A">>), Paragraph(<<"B">>), Image, Null}

\* the nodes of exactly n entries and the block sequences of exactly n entries
RECURSIVE NodesOf(_)
RECURSIVE ForestOf(_)
NodesOf(n) ==
  IF n = 1 THEN Leaves \cup {Grid(<<>>), Columns(<<Arr(<<>>), Arr(<<>>)>>)}
  ELSE {Grid(f) : f \in ForestOf(n - 1)}
       \cup UNION {{Columns(<<Arr(a), Arr(b)>>) : a \in ForestOf(i), b \in ForestOf(n - 1 - i)}
                   : i \in 0..(n - 1)}
ForestOf(n) ==
  IF n = 0 THEN {<<>>}
  ELSE UNION {{<<x>> \o r : x \in NodesOf(k), r \in ForestOf(n - k)} : k \in 1..n}

\* every block sequence of at most MaxNodes entries
Forests == UNION {ForestOf(n) : n \in 0..MaxNodes}

\* the block sequences found in legacy posts
LegacyTrees ==
  {<<Heading(<<"Title">>), Grid(<<Heading(<<"A">>), Paragraph(<<"B">>)>>)>>}

\* what a stored post's blocks field may hold: nothing, null, a real sequence,
\* the JSON text of one, text that is no JSON, the JSON text of a non-sequence
BlocksValues ==
  {Undef, Null, Arr(<<Paragraph(<<"hi">>)>>)}
  \cup {Str(Stringify(Arr(t))) : t \in LegacyTrees}
  \cup {Str(<<"oops">>), Str(Stringify(Paragraph(<<"hi">>)))}

\* the content of the posts migratePostsIfNeeded is called on as objects:
\* plain text, and the JSON text of a sequence inside white space
HeapContents ==
  {Str(<<"hi">>), Str(<<" ">> \o Stringify(Arr(<<Heading(<<"Title">>)>>)) \o <<"\n">>)}

\* what a stored post's content field may hold: plain text, nothing, plain
\* text that begins with "[", the JSON text of a sequence inside white space
ContentValues ==
  {Str(<<"hi">>), Undef, Str(<<"[", "draft", "]", " ", "hi">>)}
  \cup {Str(<<" ">> \o Stringify(Arr(<<Heading(<<"Title">>)>>)) \o <<"\n">>)}

\* a stored post; Undef stands for a property the post does not have
Post(id, b, c) ==
  Lit([x \in {"id", "title", "sectionId"}
         \cup (IF b = Undef THEN {} ELSE {"blocks"})
         \cup (IF c = Undef THEN {} ELSE {"content"})
       |-> CASE x = "id" -> Str(<<"post", "-">> \o NumSyms(id))
             [] x = "title" -> Str(<<"t">>)
             [] x = "sectionId" -> Num(1)
             [] x = "blocks" -> b
             [] OTHER -> c])

\* a posts array of n posts, ids by position
PostList(n, bs, cs) == [i \in 1..n |-> Post(i, bs[i], cs[i])]

\* the parsed content of data.json
DataOf(posts) == Lit([sections |-> Arr(<<>>), posts |-> Arr(posts), nextSectionId |-> Num(1)])

\* a section as POST /api/sections stores it
Section(id) ==
  Lit([id |-> Num(id), name |-> Str(<<"s">>), description |-> Str(<<>>),
       createdAt |-> Str(<<"2025-01-01">>), order |-> Num(id)])

\* a post as POST /api/posts stores it
StoredPost(id, sectionId, b, c) ==
  Lit([id |-> id, title |-> Str(<<"t">>), content |-> c, blocks |-> b,
       image |-> Null, date |-> Str(<<"2025-01-01">>), sectionId |-> Num(sectionId)])

\* the posts a data.json may hold when the server starts, ids pairwise
\* distinct as strings: two stored by POST /api/posts, the second under a
\* numbered id, and one of an earlier version (numeric id, encoded blocks)
SeedPosts ==
  <<StoredPost(Str(<<"a">>), 1, Arr(<<Paragraph(<<"hi">>)>>), Str(<<"hi">>)),
    StoredPost(Str(<<"a", "-", "2">>), 2, Null, Str(<<"hi">>)),
    StoredPost(Num(5), 1, Str(Stringify(Arr(<<Heading(<<"Title">>)>>))), Str(<<"Title">>))>>

\* the posts of SeedPosts at the positions in S, in order
RECURSIVE SeedsFrom(_, _)
SeedsFrom(S, i) ==
  IF i > Len(SeedPosts) THEN <<>>
  ELSE (IF i \in S THEN <<SeedPosts[i]>> ELSE <<>>) \o SeedsFrom(S, i + 1)

\* data.json with two sections and the seed posts at the positions in S
ServerData(S) ==
  Lit([sections |-> Arr(<<Section(1), Section(2)>>), posts |-> Arr(SeedsFrom(S, 1)),
       nextSectionId |-> Num(3)])

\* today's date, as new Date().toISOString().split('T')[0] gives it
Days == {<<"2025-01-01">>}

\* what a save request carries: req.body after express.json() or multer, and
\* req.file
\* plain text with an uploaded image
PlainUpload ==
  [body |-> Lit([title |-> Str(<<"new">>), content |-> Str(<<"hi">>)]),
   file |-> Lit([filename |-> Str(<<"1.png">>)])]
\* a block sequence as an array, beside stale content
ArrayUpload ==
  [body |-> Lit([id |-> Str(<<"a">>), title |-> Str(<<"new">>),
                 blocks |-> Arr(<<Heading(<<"Title">>), Paragraph(<<"B">>)>>),
                 content |-> Str(<<"stale">>)]),
   file |-> Undef]
\* a block sequence as an encoded string, the id inside white space
EncodedUpload ==
  [body |-> Lit([id |-> Str(<<" ", "a", " ">>),
                 blocks |-> Str(Stringify(Arr(<<Grid(<<Heading(<<"A">>)>>)>>))),
                 sectionId |-> Str(<<"2">>)]),
   file |-> Undef]
\* an encoded block that is no sequence
ObjectUpload ==
  [body |-> Lit([id |-> Str(<<"a">>), blocks |-> Str(Stringify(Paragraph(<<"hi">>)))]),
   file |-> Undef]
\* a numeric id, and content holding an encoded sequence
ContentUpload ==
  [body |-> Lit([id |-> Num(5),
                 content |-> Str(Stringify(Arr(<<Heading(<<"Title">>)>>)))]),
   file |-> Undef]
\* blocks that are no JSON, a section id that is no number
BadUpload ==
  [body |-> Lit([blocks |-> Str(<<"oops">>), content |-> Str(<<"hi">>),
                 sectionId |-> Str(<<"x">>)]),
   file |-> Undef]

Uploads ==
  {PlainUpload, ArrayUpload, EncodedUpload, ObjectUpload, ContentUpload, BadUpload}

\* a PUT /api/posts/:id request: its :id and what it carries
Update(id, u) == [id |-> id, body |-> u.body, file |-> u.file]

\* the updates sent: of a post stored with a block sequence, of a post stored
\* with encoded blocks under a numeric id, and of no stored post
Updates ==
  {Update(<<"a">>, ArrayUpload), Update(<<"a">>, BadUpload),
   Update(<<"5">>, PlainUpload), Update(<<"5">>, ObjectUpload),
   Update(<<"zz">>, ArrayUpload), Update(<<"zz">>, PlainUpload)}

\* the :id of a DELETE on a post: ids of stored posts, and one of no post
PostParams == {<<"a">>, <<"5">>, <<"zz">>}

\* the :id of a request on a section: a section's id, one followed by a
\* letter, and no number
SectionParams == {<<"1">>, <<"2", "x">>, <<"x">>}

---------------------------------------------------------------------------
(* The state machines *)

serverVars == <<store, lastIn, lastOut, calls, writes, req, res, heap, ret>>
extractVars == <<tree, outLines, plain, phase>>
editorVars == <<blocks, created, reqType, now, born, lastOp>>

\* no request, no response
NoRequest == [method |-> "none", id |-> <<>>, body |-> Undef, file |-> Undef, day |-> <<>>]
NoResponse == [status |-> 0, body |-> Undef]

\* migratePostsIfNeeded has not been called on the heap
NoReturn == [called |-> FALSE, changed |-> FALSE, data |-> Undef]

\* no request served yet
ServerIdle ==
  /\ lastIn = Undef
  /\ lastOut = [threw |-> FALSE, changed |-> FALSE, data |-> Undef]
  /\ calls = 0
  /\ writes = 0
  /\ req = NoRequest
  /\ res = NoResponse
  /\ heap = <<>>
  /\ ret = NoReturn

\* the extractor has not been called
ExtractIdle == outLines = <<>> /\ plain = Undef /\ phase = "input"

\* the editor as App() first renders it
EditorIdle ==
  /\ blocks = <<>> /\ created = Undef /\ reqType = "" /\ now = 0
  /\ born = <<>> /\ lastOp = NoOp

\* a handler that calls saveData whatever migratePostsIfNeeded reported
saveAlways(r) == ~r.threw

\* if (changed) saveData(data), reached only when the call returned
saveWhen(r) == ~r.threw /\ r.changed

\* GET /api/posts: readData, migratePostsIfNeeded, saveData when changed.
\* data.json holds the JSON text of store; writing and reading it back keeps
\* every value stored here (no undefined property is ever stored).
GetPosts ==
  /\ calls < MaxCalls
  /\ lastIn' = store
  /\ lastOut' = migratePostsIfNeeded(store)
  /\ store' = IF saveWhen(lastOut') THEN lastOut'.data ELSE store
  /\ writes' = IF saveWhen(lastOut') THEN writes + 1 ELSE writes
  /\ calls' = calls + 1
  /\ UNCHANGED <<req, res, heap, ret, extractVars, editorVars>>

\* a request served on what readData returned: saveData(data) when it wrote
Served(method, id, u, day, response, wrote, data) ==
  /\ calls < MaxCalls
  /\ lastIn' = store
  /\ req' = [method |-> method, id |-> id, body |-> u.body, file |-> u.file, day |-> day]
  /\ res' = response
  /\ store' = IF wrote THEN saved(data) ELSE store
  /\ writes' = IF wrote THEN writes + 1 ELSE writes
  /\ calls' = calls + 1
  /\ UNCHANGED <<lastOut, heap, ret, extractVars, editorVars>>

\* a request without body or file
NoUpload == [body |-> Undef, file |-> Undef]

\* POST /api/posts with body and file u.body, u.file on the day given
PostPost(u, day) ==
  Served("POST", <<>>, u, day, Json(postedPost(store, u.body, u.file, day)),
         TRUE, postedData(store, u.body, u.file, day))

\* PUT /api/posts/:id
PutPost(id, u) ==
  IF postIndex(postsOf(store), id) = 0
  THEN Served("PUT", id, u, <<>>, NotFound, FALSE, store)
  ELSE Served("PUT", id, u, <<>>,
              Json(postsOf(putData(store, postIndex(postsOf(store), id), u.body, u.file))
                     [postIndex(postsOf(store), id)]),
              TRUE, putData(store, postIndex(postsOf(store), id), u.body, u.file))

\* DELETE /api/posts/:id (the post's image file is unlinked beside the store)
DeletePost(id) ==
  IF postIndex(postsOf(store), id) = 0
  THEN Served("DELETE", id, NoUpload, <<>>, NotFound, FALSE, store)
  ELSE Served("DELETE", id, NoUpload, <<>>, Success, TRUE,
              With(store, "posts",
                   Arr(spliceOne(postsOf(store), postIndex(postsOf(store), id)))))

\* DELETE /api/sections/:id
DeleteSection(id) ==
  Served("DELETE section", id, NoUpload, <<>>, Success, TRUE,
         sectionDeleted(store, parseInt(Str(id))))

\* migratePostsIfNeeded(current), current being the data object at address 1
Migrate ==
  /\ ~ret.called
  /\ heap' = migrateOnHeap(heap, 1).heap
  /\ ret' = [called |-> TRUE, changed |-> migrateOnHeap(heap, 1).changed,
             data |-> migrateOnHeap(heap, 1).data]
  /\ UNCHANGED <<store, lastIn, lastOut, calls, writes, req, res, extractVars, editorVars>>

\* the server derives the plain text of the blocks it was given
ExtractText ==
  /\ phase = "input"
  /\ outLines' = extractLines(tree)
  /\ plain' = Str(joinLines(outLines'))
  /\ phase' = "done"
  /\ UNCHANGED <<tree, serverVars, editorVars>>

\* the values an onAdd handler may be called with: the five entries of
\* blockTypes, and one value that is none of them
RequestTypes == Variants \cup {"quote"}

\* a millisecond passes
Tick ==
  /\ now < MaxNow
  /\ now' = now + 1
  /\ UNCHANGED <<blocks, created, reqType, born, lastOp, serverVars, extractVars>>

\* onAdd at top level: setBlocks([...blocks, createBlock(type)])
AddBlock(type) ==
  /\ NumBlocks(blocks) < MaxBlocks
  /\ \E r \in 0..(RandSteps - 1) : created' = createBlock(type, now, r)
  /\ blocks' = Append(blocks, created')
  /\ reqType' = type
  /\ born' = Append(born, [id |-> Get(created', "id"), type |-> Get(created', "type")])
  /\ UNCHANGED <<now, lastOp, serverVars, extractVars>>

\* onAdd inside column idx of the columns block at top-level position i
AddToColumn(i, idx, type) ==
  /\ NumBlocks(blocks) < MaxBlocks
  /\ \E r \in 0..(RandSteps - 1) : created' = createBlock(type, now, r)
  /\ blocks' = updateBlock(blocks, Get(blocks[i], "id"),
                           addToColumn(blocks[i], idx, created'))
  /\ reqType' = type
  /\ UNCHANGED <<now, born, lastOp, serverVars, extractVars>>

\* onAdd inside the grid block at top-level position i
AddChild(i, type) ==
  /\ NumBlocks(blocks) < MaxBlocks
  /\ \E r \in 0..(RandSteps - 1) : created' = createBlock(type, now, r)
  /\ blocks' = updateBlock(blocks, Get(blocks[i], "id"), addChild(blocks[i], created'))
  /\ reqType' = type
  /\ UNCHANGED <<now, born, lastOp, serverVars, extractVars>>

\* the values of the column-count select's options
ColumnOptions == {2, 3, 4}

\* a handler call on the list before, with its target id and argument, that
\* handed the list after to setBlocksList
Called(name, before, id, arg, after) ==
  [name |-> name, list |-> before, id |-> id, arg |-> arg,
   set |-> TRUE, out |-> after, threw |-> FALSE]

\* the column-count select of the columns block at top-level position i
SetColumns(i, cols) ==
  /\ blocks' = updateBlock(blocks, Get(blocks[i], "id"), setColumns(blocks[i], cols))
  /\ UNCHANGED <<created, reqType, now, born, lastOp, serverVars, extractVars>>

\* the delete button of the block with this id inside column idx of the
\* columns block at top-level position i: the nested list's deleteBlock,
\* whose setBlocksList is updateColumn
DeleteInColumn(i, idx, id) ==
  /\ blocks' = updateBlock(blocks, Get(blocks[i], "id"),
                           updateColumn(blocks[i], idx,
                             Arr(deleteBlock(Get(blocks[i], "children").a[idx].a, id))))
  /\ UNCHANGED <<created, reqType, now, born, lastOp, serverVars, extractVars>>

\* a block's input or select changes its content: onUpdate({ ...block, content })
\* reaches updateBlock(block.id, updated); id and updated as the list's
\* closure received them
UpdateBlock(id, updated) ==
  /\ lastOp.name = "none"
  /\ blocks' = updateBlock(blocks, id, updated)
  /\ lastOp' = Called("update", blocks, id, updated, blocks')
  /\ UNCHANGED <<created, reqType, now, born, serverVars, extractVars>>

\* the delete button: onDelete = deleteBlock(block.id)
DeleteBlock(id) ==
  /\ lastOp.name = "none"
  /\ blocks' = deleteBlock(blocks, id)
  /\ lastOp' = Called("delete", blocks, id, Undef, blocks')
  /\ UNCHANGED <<created, reqType, now, born, serverVars, extractVars>>

\* onDragEnd of the top-level DndContext
DragEnd(active, over) ==
  /\ lastOp.name = "none"
  /\ lastOp' = [name |-> "drag", list |-> blocks, id |-> Get(active, "id"), arg |-> over,
                set |-> handleDragEnd(active, over, blocks).set,
                out |-> handleDragEnd(active, over, blocks).out,
                threw |-> handleDragEnd(active, over, blocks).threw]
  /\ blocks' = IF lastOp'.set THEN lastOp'.out ELSE blocks
  /\ UNCHANGED <<created, reqType, now, born, serverVars, extractVars>>

\* the changes the inputs rendered for a block can make to it, as the field
\* and the value of onUpdate({ ...block, [field]: value }): the size select
\* of every block, level and content of a heading, content of a paragraph,
\* url of an image, cols and gap of a grid
Changes(block) ==
  {[field |-> "size", value |-> Word("small")]}
  \cup (IF Get(block, "type") = Word("heading")
        THEN {[field |-> "level", value |-> Num(3)],
              [field |-> "content", value |-> Str(<<"x">>)]}
        ELSE {})
  \cup (IF Get(block, "type") = Word("paragraph")
        THEN {[field |-> "content", value |-> Str(<<"x">>)]}
        ELSE {})
  \cup (IF Get(block, "type") = Word("image")
        THEN {[field |-> "url", value |-> Str(<<"u">>)]}
        ELSE {})
  \cup (IF Get(block, "type") = Word("grid")
        THEN {[field |-> "cols", value |-> Num(4)], [field |-> "gap", value |-> Num(8)]}
        ELSE {})

\* an input of the block at top-level position i changes: its onChange calls
\* onUpdate({ ...block, [field]: value }), which is updateBlock(block.id, updated)
Edit(i, change) ==
  /\ blocks' = updateBlock(blocks, Get(blocks[i], "id"),
                           With(blocks[i], change.field, change.value))
  /\ UNCHANGED <<created, reqType, now, born, lastOp, serverVars, extractVars>>

\* the ids of the blocks of a list
IdsOf(list) == {Get(list[k], "id") : k \in 1..Len(list)}

\* the columns (grid) blocks the top-level list renders a ColumnsBlock (GridBlock) for
ColumnsAt == {i \in 1..Len(blocks) : Get(blocks[i], "type") = Word("columns")}
GridsAt == {i \in 1..Len(blocks) : Get(blocks[i], "type") = Word("grid")}

\* the server over a data.json of legacy and canonical posts
Init ==
  /\ \E n \in 0..MaxPosts :
       \E bs \in [1..n -> BlocksValues], cs \in [1..n -> ContentValues] :
         store = DataOf(PostList(n, bs, cs))
  /\ ServerIdle /\ ExtractIdle /\ EditorIdle
  /\ tree = Arr(<<>>)

Next == GetPosts

Spec == Init /\ [][Next]_vars

\* the server's handlers for saving and deleting posts and sections
InitServer ==
  /\ \E n \in 0..Len(SeedPosts) : store = ServerData(1..n)
  /\ ServerIdle /\ ExtractIdle /\ EditorIdle
  /\ tree = Arr(<<>>)

NextServer ==
  \/ \E u \in Uploads : \E day \in Days : PostPost(u, day)
  \/ \E u \in Updates : PutPost(u.id, u)
  \/ \E id \in PostParams : DeletePost(id)
  \/ \E id \in SectionParams : DeleteSection(id)

SpecServer == InitServer /\ [][NextServer]_vars

\* migratePostsIfNeeded called on what readData returned, as objects
InitMigrate ==
  /\ \E n \in 0..MaxPosts :
       \E bs \in [1..n -> BlocksValues], cs \in [1..n -> HeapContents] :
         store = DataOf(PostList(n, bs, cs))
  /\ heap = Load(store)
  /\ ret = NoReturn
  /\ lastIn = Undef
  /\ lastOut = [threw |-> FALSE, changed |-> FALSE, data |-> Undef]
  /\ calls = 0 /\ writes = 0 /\ req = NoRequest /\ res = NoResponse
  /\ ExtractIdle /\ EditorIdle
  /\ tree = Arr(<<>>)

NextMigrate == Migrate

SpecMigrate == InitMigrate /\ [][NextMigrate]_vars

\* the extractor over every block sequence within the bound
InitExtract ==
  /\ tree \in {Arr(f) : f \in Forests}
  /\ store = DataOf(<<>>)
  /\ ServerIdle /\ ExtractIdle /\ EditorIdle

NextExtract == ExtractText

SpecExtract == InitExtract /\ [][NextExtract]_vars

\* the editor adding blocks to an empty document
InitEdit ==
  /\ store = DataOf(<<>>)
  /\ tree = Arr(<<>>)
  /\ ServerIdle /\ ExtractIdle /\ EditorIdle

NextEdit ==
  \/ Tick
  \/ \E type \in RequestTypes : AddBlock(type)
  \/ \E i \in ColumnsAt : \E idx \in 1..Len(Get(blocks[i], "children").a) :
       \E type \in RequestTypes : AddToColumn(i, idx, type)
  \/ \E i \in GridsAt : \E type \in RequestTypes : AddChild(i, type)

SpecEdit == InitEdit /\ [][NextEdit]_vars

\* the block createBlock(type) returns with this id
Made(type, id) == createBlock(type, id \div RandSteps, id % RandSteps)

\* the blocks a list may hold: headings and paragraphs, ids not always distinct
ListBlocks == {Made(type, id) : type \in {"heading", "paragraph"}, id \in 0..(MaxIds - 1)}

\* the ids a handler may be called with: those of ListBlocks, and one that no
\* block of a list carries
CallIds == {Num(id) : id \in 0..MaxIds}

\* a heading with this id after text was typed into it
Typed(id) == With(Made("heading", id.n), "content", Str(<<"x">>))

\* the over of a drag event: a droppable with an id, or null when the drag
\* ended over nothing
Overs == {Null} \cup {Lit([id |-> id]) : id \in CallIds}

\* the list handlers over every list of at most MaxList blocks
InitList ==
  /\ store = DataOf(<<>>)
  /\ tree = Arr(<<>>)
  /\ ServerIdle /\ ExtractIdle
  /\ now = 0 /\ reqType = "" /\ created = Undef /\ lastOp = NoOp
  /\ \E n \in 0..MaxList : blocks \in [1..n -> ListBlocks]
  /\ born = [i \in 1..Len(blocks) |->
               [id |-> Get(blocks[i], "id"), type |-> Get(blocks[i], "type")]]

NextList ==
  \/ \E id \in CallIds : UpdateBlock(id, Typed(id))
  \/ \E id \in CallIds : DeleteBlock(id)
  \/ \E id \in CallIds : \E over \in Overs : DragEnd(Lit([id |-> id]), over)

SpecList == InitList /\ [][NextList]_vars

\* the editor adding blocks to an empty document and editing them
NextChange ==
  \/ \E type \in RequestTypes : AddBlock(type)
  \/ \E i \in 1..Len(blocks) : \E change \in Changes(blocks[i]) : Edit(i, change)
  \/ \E i \in ColumnsAt : \E cols \in ColumnOptions : SetColumns(i, cols)
  \/ \E i \in ColumnsAt : \E idx \in 1..Len(Get(blocks[i], "children").a) :
       \E type \in RequestTypes : AddToColumn(i, idx, type)
  \/ \E i \in GridsAt : \E type \in RequestTypes : AddChild(i, type)

SpecChange == InitEdit /\ [][NextChange]_vars

\* the editor holding one columns block fresh from createBlock
InitColumns ==
  /\ store = DataOf(<<>>)
  /\ tree = Arr(<<>>)
  /\ ServerIdle /\ ExtractIdle
  /\ now = 0 /\ reqType = "columns" /\ lastOp = NoOp
  /\ \E r \in 0..(RandSteps - 1) : created = createBlock("columns", 0, r)
  /\ blocks = <<created>>
  /\ born = <<[id |-> Get(created, "id"), type |-> Get(created, "type")]>>

NextColumns ==
  \/ \E i \in ColumnsAt : \E cols \in ColumnOptions : SetColumns(i, cols)
  \/ \E i \in ColumnsAt : \E idx \in 1..Len(Get(blocks[i], "children").a) :
       \E type \in RequestTypes : AddToColumn(i, idx, type)
  \/ \E i \in ColumnsAt : \E idx \in 1..Len(Get(blocks[i], "children").a) :
       \E id \in IdsOf(Get(blocks[i], "children").a[idx].a) : DeleteInColumn(i, idx, id)

SpecColumns == InitColumns /\ [][NextColumns]_vars

---------------------------------------------------------------------------
(* Properties of migratePostsIfNeeded, checked under Spec *)

\* a GET /api/posts has run the normalizer
Acted == calls >= 1

InPosts == postsOf(lastIn)
OutPosts == postsOf(lastOut.data)

\* v is a string whose first character after leading white space is "["
BeginsWithBracket(v) ==
  /\ v.t = "str"
  /\ \E k \in 1..Len(v.s) :
       v.s[k] = "[" /\ \A j \in 1..(k - 1) : v.s[j] \in WhiteSpace

\* v is a string holding the JSON text of a sequence; SeqOf(v) is that sequence
ParsesToSeq(v) ==
  v.t = "str" /\ LET r == JSONparse(v.s) IN ~r.threw /\ r.v.t = "arr"
SeqOf(v) == JSONparse(v.s).v

SameBlocksAndContent(p, q) ==
  Get(q, "blocks") = Get(p, "blocks") /\ Get(q, "content") = Get(p, "content")

\* C1: migration is idempotent: applying migratePostsIfNeeded to the document a
\* first application returned reports changed = false and returns an equal
\* document, whatever shapes the posts had; the second GET /api/posts of a run
\* is such a second application
C1_Idempotent ==
  Acted =>
    /\ ~lastOut.threw
    /\ migratePostsIfNeeded(lastOut.data)
         = [threw |-> FALSE, changed |-> FALSE, data |-> lastOut.data]
    /\ calls >= 2 => (~lastOut.changed /\ lastOut.data = lastIn)

\* a first application that migrated a double-encoded and a pre-block post
C1_Witness ==
  /\ calls = 1 /\ lastOut.changed /\ Len(InPosts) = 2
  /\ ParsesToSeq(Get(InPosts[1], "blocks"))
  /\ Get(InPosts[2], "blocks") = Null /\ ParsesToSeq(Get(InPosts[2], "content"))
  /\ IsArray(Get(OutPosts[1], "blocks")) /\ IsArray(Get(OutPosts[2], "blocks"))

\* C2: step 1: a post whose blocks is a string that parses to a sequence gets
\* that sequence as blocks and the document is marked changed; its content
\* becomes the extractor's text of the sequence exactly when content is a string
\* whose trimmed text begins with "[", and is left as it was otherwise
C2_Step1 ==
  Acted =>
    /\ ~lastOut.threw
    /\ Len(OutPosts) = Len(InPosts)
    /\ \A i \in 1..Len(InPosts) :
         ParsesToSeq(Get(InPosts[i], "blocks")) =>
           /\ lastOut.changed
           /\ Get(OutPosts[i], "blocks") = SeqOf(Get(InPosts[i], "blocks"))
           /\ Get(OutPosts[i], "content")
                = IF BeginsWithBracket(Get(InPosts[i], "content"))
                  THEN Str(extractPlainTextFromBlocks(SeqOf(Get(InPosts[i], "blocks"))))
                  ELSE Get(InPosts[i], "content")

\* double-encoded posts: one whose content begins with "[" without being JSON
\* (regenerated), one whose content is plain text (kept)
C2_Witness ==
  /\ Acted /\ Len(InPosts) = 2
  /\ ParsesToSeq(Get(InPosts[1], "blocks")) /\ ParsesToSeq(Get(InPosts[2], "blocks"))
  /\ BeginsWithBracket(Get(InPosts[1], "content"))
  /\ JSONparse(Get(InPosts[1], "content").s).threw
  /\ Get(OutPosts[1], "content") # Get(InPosts[1], "content")
  /\ Get(InPosts[2], "content") = Str(<<"hi">>)
  /\ Get(OutPosts[2], "content") = Str(<<"hi">>)

\* C3: step 2: a post without blocks (absent or null) whose content is a string
\* that parses to a sequence gets that sequence as blocks and the extractor's
\* text of it as content, and the document is marked changed
C3_Step2 ==
  Acted =>
    /\ ~lastOut.threw
    /\ Len(OutPosts) = Len(InPosts)
    /\ \A i \in 1..Len(InPosts) :
         (Get(InPosts[i], "blocks").t \in {"undef", "null"}
          /\ ParsesToSeq(Get(InPosts[i], "content"))) =>
           /\ lastOut.changed
           /\ Get(OutPosts[i], "blocks") = SeqOf(Get(InPosts[i], "content"))
           /\ Get(OutPosts[i], "content")
                = Str(extractPlainTextFromBlocks(SeqOf(Get(InPosts[i], "content"))))

\* pre-block posts, one with blocks absent and one with blocks null, migrated
C3_Witness ==
  /\ Acted /\ Len(InPosts) = 2
  /\ Get(InPosts[1], "blocks") = Undef /\ Get(InPosts[2], "blocks") = Null
  /\ ParsesToSeq(Get(InPosts[1], "content")) /\ ParsesToSeq(Get(InPosts[2], "content"))
  /\ Get(OutPosts[1], "blocks") = Arr(<<Heading(<<"Title">>)>>)
  /\ Get(OutPosts[1], "content") = Str(<<"Title">>)
  /\ Get(OutPosts[2], "content") = Str(<<"Title">>)
  /\ lastOut.changed

\* C4: a document whose posts all hold a real sequence as blocks comes back
\* with changed = false and every post's blocks and content as they were,
\* also when a content string begins with "["
C4_CanonicalUntouched ==
  (Acted /\ \A i \in 1..Len(InPosts) : IsArray(Get(InPosts[i], "blocks"))) =>
    /\ ~lastOut.threw
    /\ ~lastOut.changed
    /\ Len(OutPosts) = Len(InPosts)
    /\ \A i \in 1..Len(InPosts) : SameBlocksAndContent(InPosts[i], OutPosts[i])

\* a canonical document with a content that is the JSON text of a sequence
C4_Witness ==
  /\ calls = 1 /\ Len(InPosts) = 2
  /\ \A i \in 1..2 : IsArray(Get(InPosts[i], "blocks"))
  /\ ParsesToSeq(Get(InPosts[1], "content"))
  /\ BeginsWithBracket(Get(InPosts[2], "content"))
  /\ ~lastOut.changed /\ writes = 0

\* C5: a post whose blocks is a string that does not parse to a sequence keeps
\* its blocks and content and does not mark the document changed, whatever its
\* content holds
C5_FailedParseSkips ==
  Acted =>
    /\ ~lastOut.threw
    /\ Len(OutPosts) = Len(InPosts)
    /\ \A i \in 1..Len(InPosts) :
         (IsString(Get(InPosts[i], "blocks")) /\ ~ParsesToSeq(Get(InPosts[i], "blocks")))
           => SameBlocksAndContent(InPosts[i], OutPosts[i])
    /\ (\A i \in 1..Len(InPosts) :
          IsString(Get(InPosts[i], "blocks")) /\ ~ParsesToSeq(Get(InPosts[i], "blocks")))
         => ~lastOut.changed

\* the document holding only the post p
Alone(p) == With(lastIn, "posts", Arr(<<p>>))

\* C6: posts are treated independently and nothing is raised: each post comes
\* out as it would from a document holding it alone, and the document is
\* marked changed exactly when one of its posts alone would mark it
C6_Independent ==
  Acted =>
    /\ ~lastOut.threw
    /\ Len(OutPosts) = Len(InPosts)
    /\ \A i \in 1..Len(InPosts) :
         /\ ~migratePostsIfNeeded(Alone(InPosts[i])).threw
         /\ OutPosts[i] = postsOf(migratePostsIfNeeded(Alone(InPosts[i])).data)[1]
    /\ lastOut.changed
         = (\E i \in 1..Len(InPosts) : migratePostsIfNeeded(Alone(InPosts[i])).changed)

\* malformed data in the first post (blocks that is no JSON, content that only
\* begins with "["), a double-encoded second post that is migrated all the same
C6_Witness ==
  /\ Acted /\ Len(InPosts) = 2
  /\ Get(InPosts[1], "blocks") = Str(<<"oops">>)
  /\ BeginsWithBracket(Get(InPosts[1], "content"))
  /\ JSONparse(Get(InPosts[1], "content").s).threw
  /\ OutPosts[1] = InPosts[1]
  /\ ParsesToSeq(Get(InPosts[2], "blocks"))
  /\ IsArray(Get(OutPosts[2], "blocks"))
  /\ lastOut.changed

---------------------------------------------------------------------------
(* Properties of extractPlainTextFromBlocks, checked under SpecExtract *)

Extracted == phase = "done"

RECURSIVE Flatten(_)
Flatten(seqs) == IF seqs = <<>> THEN <<>> ELSE Head(seqs) \o Flatten(Tail(seqs))

IsText(node) ==
  node # Null /\ Get(node, "type") \in {Word("heading"), Word("paragraph")}

\* the Heading and Paragraph nodes of a block sequence, depth-first in document
\* order: a grid's children in order, a columns block column by column
RECURSIVE TextNodes(_)
TextNodes(seq) ==
  Flatten([i \in 1..Len(seq) |->
    IF seq[i] = Null THEN <<>>
    ELSE IF IsText(seq[i]) THEN <<seq[i]>>
    ELSE IF Get(seq[i], "type") = Word("grid") THEN TextNodes(Get(seq[i], "children").a)
    ELSE IF Get(seq[i], "type") = Word("columns")
    THEN Flatten([c \in 1..Len(Get(seq[i], "children").a) |->
                    TextNodes(Get(seq[i], "children").a[c].a)])
    ELSE <<>>])

ContentOf(node) == Get(node, "content").s
ContentsOf(nodes) == [i \in 1..Len(nodes) |-> ContentOf(nodes[i])]
HasText(node) == ContentOf(node) # <<>>

\* how many entries of the sequence q satisfy Test
Count(q, Test(_)) == Cardinality({i \in 1..Len(q) : Test(q[i])})

\* C7 as stated: one line for every Heading and Paragraph node, equal to its
\* content verbatim, an empty content giving an empty line
C7_LinePerTextNode ==
  Extracted => outLines = ContentsOf(TextNodes(tree.a))

\* C7: extractText contributes one line for every Heading and Paragraph node
\* whose content is a non-empty string, equal to that content verbatim; a node
\* whose content is the empty string contributes no line: every text is a line
\* as often as it is the content of a Heading or Paragraph node, and no line is
\* empty
C7_LinePerNonEmptyText ==
  Extracted =>
    /\ \A i \in 1..Len(outLines) : outLines[i] # <<>>
    /\ Len(outLines) = Count(TextNodes(tree.a), HasText)
    /\ \A c \in {ContentOf(n) : n \in {Heading(<<"A">>), Paragraph(<<"B">>)}} :
         Count(outLines, LAMBDA l : l = c)
           = Count(TextNodes(tree.a), LAMBDA n : ContentOf(n) = c)

\* a heading without text between two text blocks: two lines, not three
C7_Witness ==
  /\ Extracted
  /\ tree = Arr(<<Paragraph(<<"B">>), Heading(<<>>), Heading(<<"A">>)>>)
  /\ outLines = << <<"B">>, <<"A">> >>

\* C8: the lines come depth-first in document order: a columns block column by
\* column in index order, a grid in children order, nested containers expanded
\* in place at any depth; image and null nodes contribute no line
C8_DocumentOrder ==
  Extracted =>
    /\ outLines = ContentsOf(SelectSeq(TextNodes(tree.a), HasText))
    /\ (\A i \in 1..Len(tree.a) : tree.a[i] \in {Image, Null}) => outLines = <<>>

\* a columns block with text in both columns: the first column's line first
C8_Witness ==
  /\ Extracted
  /\ tree = Arr(<<Columns(<<Arr(<<Paragraph(<<"B">>)>>), Arr(<<Heading(<<"A">>)>>)>>)>>)
  /\ outLines = << <<"B">>, <<"A">> >>

\* where line i starts in the joined text, less one
RECURSIVE Offset(_)
Offset(i) == IF i = 1 THEN 0 ELSE Offset(i - 1) + Len(outLines[i - 1]) + 1

\* C9: the result is the lines joined by exactly one newline between
\* consecutive lines, with no leading or trailing newline; a grid holding
\* Heading "A" then Paragraph "B" gives "A\nB"; no contributing node gives ""
C9_JoinedByNewline ==
  Extracted =>
    /\ plain.t = "str"
    /\ Len(plain.s) = IF outLines = <<>> THEN 0 ELSE Offset(Len(outLines) + 1) - 1
    /\ \A i \in 1..Len(outLines) :
         /\ \A k \in 1..Len(outLines[i]) : plain.s[Offset(i) + k] = outLines[i][k]
         /\ i > 1 => plain.s[Offset(i)] = "\n"
    /\ plain.s # <<>> => plain.s[1] # "\n" /\ plain.s[Len(plain.s)] # "\n"
    /\ tree = Arr(<<Grid(<<Heading(<<"A">>), Paragraph(<<"B">>)>>)>>)
         => plain = Str(<<"A", "\n", "B">>)
    /\ TextNodes(tree.a) = <<>> => plain = Str(<<>>)

\* the grid of the example, and its text
C9_Witness ==
  /\ Extracted
  /\ tree = Arr(<<Grid(<<Heading(<<"A">>), Paragraph(<<"B">>)>>)>>)
  /\ outLines = << <<"A">>, <<"B">> >>
  /\ plain = Str(<<"A", "\n", "B">>)

---------------------------------------------------------------------------
(* Properties of createBlock, checked under SpecEdit *)

\* C10: createBlock called with a value that is none of the five variant tags
\* returns no block, and no block of an unknown type is ever held
C10_UnknownTypeFails ==
  /\ (reqType # "" /\ reqType \notin Variants) => created.t # "obj"
  /\ \A i \in 1..Len(blocks) : Get(blocks[i], "type") \in {Word(v) : v \in Variants}


\* the properties a block has
Fields(b) == {k[1] : k \in DOMAIN b.f}

\* C11: createBlock(type) for each of the five variants returns a block with
\* that type, size full and the variant's defaults: heading level 2 and empty
\* content, paragraph empty content, image empty url and alt, columns a count
\* of 2 with exactly two empty column sequences, grid 3 columns, gap 16 and
\* empty children; nothing else besides the id
C11_VariantDefaults ==
  reqType \in Variants =>
    /\ created.t = "obj"
    /\ Get(created, "type") = Str(<<reqType>>)
    /\ Get(created, "size") = Str(<<"full">>)
    /\ Get(created, "id").t = "num"
    /\ reqType = "heading" =>
         /\ Fields(created) = {"id", "type", "size", "content", "level"}
         /\ Get(created, "level") = Num(2)
         /\ Get(created, "content") = Str(<<>>)
    /\ reqType = "paragraph" =>
         /\ Fields(created) = {"id", "type", "size", "content"}
         /\ Get(created, "content") = Str(<<>>)
    /\ reqType = "image" =>
         /\ Fields(created) = {"id", "type", "size", "url", "alt"}
         /\ Get(created, "url") = Str(<<>>)
         /\ Get(created, "alt") = Str(<<>>)
    /\ reqType = "columns" =>
         /\ Fields(created) = {"id", "type", "size", "columns", "children"}
         /\ Get(created, "columns") = Num(2)
         /\ Get(created, "children") = Arr(<<Arr(<<>>), Arr(<<>>)>>)
    /\ reqType = "grid" =>
         /\ Fields(created) = {"id", "type", "size", "cols", "gap", "children"}
         /\ Get(created, "cols") = Num(3)
         /\ Get(created, "gap") = Num(16)
         /\ Get(created, "children") = Arr(<<>>)

\* a columns block made after a grid, both held at top level
C11_Witness ==
  /\ Len(blocks) = 2
  /\ Get(blocks[1], "type") = Word("grid")
  /\ reqType = "columns"
  /\ blocks[2] = created
  /\ Len(Get(created, "children").a) = 2

\* C12: block ids are unique within a document: after any sequence of block
\* creations at any nesting level, all blocks carry pairwise distinct ids,
\* whatever the clock and the random source return
C12_IdsDistinct ==
  \A i, j \in 1..NumBlocks(blocks) :
    i # j => Get(NestedEach(blocks, 1)[i], "id") # Get(NestedEach(blocks, 1)[j], "id")

---------------------------------------------------------------------------
(* Properties of ColumnsBlock, checked under SpecColumns *)

ChildrenOf(b) == Get(b, "children").a

\* the number of column sequences equals the block's column count
ArityHolds ==
  \A i \in ColumnsAt : Get(blocks[i], "columns") = Num(Len(ChildrenOf(blocks[i])))

\* a step that changes the count of a columns block keeps every column whose
\* index exists before and after and makes every added column empty
CountChangeKeeps ==
  \A i \in ColumnsAt :
    (Len(blocks') = Len(blocks) /\ Get(blocks'[i], "columns") # Get(blocks[i], "columns")) =>
      /\ Get(blocks'[i], "id") = Get(blocks[i], "id")
      /\ \A c \in 1..Len(ChildrenOf(blocks'[i])) :
           ChildrenOf(blocks'[i])[c]
             = IF c <= Len(ChildrenOf(blocks[i])) THEN ChildrenOf(blocks[i])[c] ELSE Arr(<<>>)

\* C13: from a columns block made by createBlock, after any sequence of count
\* changes and edits inside columns the number of column sequences equals the
\* block's column count; a count change keeps every column whose index exists
\* before and after, and each added column is an empty sequence
C13_ColumnsArity == []ArityHolds /\ [][CountChangeKeeps]_vars

\* three columns, the third holding a block: the count was changed from the
\* two columns createBlock made, and a block was added to the new column
C13_Witness ==
  /\ Get(blocks[1], "columns") = Num(3)
  /\ Len(ChildrenOf(blocks[1])) = 3
  /\ ChildrenOf(blocks[1])[1] = Arr(<<>>)
  /\ Len(ChildrenOf(blocks[1])[3].a) = 1

---------------------------------------------------------------------------
(* Properties of updateBlock, deleteBlock and handleDragEnd, checked under *)
(* SpecList                                                                *)

IdAt(list, k) == Get(list[k], "id")

\* the first position of the list whose block has the id
FirstAt(list, id) ==
  CHOOSE k \in 1..Len(list) : IdAt(list, k) = id /\ \A j \in 1..(k - 1) : IdAt(list, j) # id

\* the list without its element at position k
Without(list, k) == SubSeq(list, 1, k - 1) \o SubSeq(list, k + 1, Len(list))

\* the id of the drop target of the last drag, Undef when it ended over nothing
OverId == IF lastOp.arg = Null THEN Undef ELSE Get(lastOp.arg, "id")

\* C14: updateById replaces the element whose id matches by the new block and
\* leaves the length, the positions and every other element unchanged; when
\* no element has that id the result equals the input and nothing is raised
C14_UpdateById ==
  lastOp.name = "update" =>
    /\ ~lastOp.threw /\ lastOp.set
    /\ Len(lastOp.out) = Len(lastOp.list)
    /\ \A k \in 1..Len(lastOp.list) :
         lastOp.out[k] = IF IdAt(lastOp.list, k) = lastOp.id THEN lastOp.arg
                         ELSE lastOp.list[k]
    /\ lastOp.id \notin IdsOf(lastOp.list) => lastOp.out = lastOp.list
    /\ blocks = lastOp.out

\* the middle one of three blocks with distinct ids is replaced
C14_Witness ==
  /\ lastOp.name = "update" /\ Len(lastOp.list) = 3
  /\ Cardinality(IdsOf(lastOp.list)) = 3
  /\ IdAt(lastOp.list, 2) = lastOp.id
  /\ Get(lastOp.list[2], "type") = Word("heading")
  /\ blocks = <<lastOp.list[1], lastOp.arg, lastOp.list[3]>>
  /\ lastOp.arg # lastOp.list[2]

\* C15: deleteById removes the first element with the given id and keeps all
\* other elements in their original relative order; when no element has that
\* id the result equals the input
C15_DeleteFirst ==
  lastOp.name = "delete" =>
    /\ ~lastOp.threw /\ lastOp.set
    /\ lastOp.out = IF lastOp.id \in IdsOf(lastOp.list)
                    THEN Without(lastOp.list, FirstAt(lastOp.list, lastOp.id))
                    ELSE lastOp.list

\* C16: reorder is an array move, not a swap: with movedId and targetId
\* distinct members of the sequence, the moved element ends at the index
\* targetId held before the call and all other elements keep their relative
\* order; moving c to a's position in [a, b, c] gives [c, a, b]
C16_ReorderMoves ==
  (/\ lastOp.name = "drag"
   /\ lastOp.id # OverId
   /\ lastOp.id \in IdsOf(lastOp.list)
   /\ OverId \in IdsOf(lastOp.list)) =>
    /\ ~lastOp.threw /\ lastOp.set
    /\ Len(lastOp.out) = Len(lastOp.list)
    /\ lastOp.out[FirstAt(lastOp.list, OverId)]
         = lastOp.list[FirstAt(lastOp.list, lastOp.id)]
    /\ Without(lastOp.out, FirstAt(lastOp.list, OverId))
         = Without(lastOp.list, FirstAt(lastOp.list, lastOp.id))
    /\ (/\ Len(lastOp.list) = 3
        /\ lastOp.id = IdAt(lastOp.list, 3)
        /\ OverId = IdAt(lastOp.list, 1)
        /\ Cardinality(IdsOf(lastOp.list)) = 3)
         => lastOp.out = <<lastOp.list[3], lastOp.list[1], lastOp.list[2]>>
    /\ blocks = lastOp.out

\* [a, b, c] with c dragged onto a
C16_Witness ==
  /\ lastOp.name = "drag" /\ Len(lastOp.list) = 3
  /\ Cardinality(IdsOf(lastOp.list)) = 3
  /\ lastOp.id = IdAt(lastOp.list, 3)
  /\ OverId = IdAt(lastOp.list, 1)
  /\ blocks = <<lastOp.list[3], lastOp.list[1], lastOp.list[2]>>

\* C17: reorder is a permutation: for every pair of ids present in the
\* sequence the result has the same length and the same multiset of blocks
C17_ReorderPermutes ==
  (/\ lastOp.name = "drag"
   /\ lastOp.id \in IdsOf(lastOp.list)
   /\ OverId \in IdsOf(lastOp.list)) =>
    /\ ~lastOp.threw
    /\ Len(blocks) = Len(lastOp.list)
    /\ \A b \in ListBlocks :
         Count(blocks, LAMBDA x : x = b) = Count(lastOp.list, LAMBDA x : x = b)

\* a list holding the same block twice, its first element dragged to the end
C17_Witness ==
  /\ lastOp.name = "drag" /\ Len(lastOp.list) = 3
  /\ lastOp.list[1] = lastOp.list[2]
  /\ lastOp.id = IdAt(lastOp.list, 1)
  /\ OverId = IdAt(lastOp.list, 3)
  /\ lastOp.set
  /\ blocks = <<lastOp.list[2], lastOp.list[3], lastOp.list[1]>>

\* C18: reorder is a no-op whenever movedId or targetId is not a member of
\* the sequence: the sequence handed to the setter, if any, equals the input,
\* and no element changes position or is lost
C18_AbsentIsNoOp ==
  (/\ lastOp.name = "drag"
   /\ (lastOp.id \notin IdsOf(lastOp.list) \/ OverId \notin IdsOf(lastOp.list))) =>
    /\ lastOp.set => lastOp.out = lastOp.list
    /\ blocks = lastOp.list

\* C19: the mutation operations never raise for an absent target: updateById,
\* deleteById and reorder complete without an exception when the target id is
\* not in the sequence, also when the drag ends over nothing
C19_NeverRaises ==
  (/\ lastOp.name \in {"update", "delete", "drag"}
   /\ (lastOp.id \notin IdsOf(lastOp.list)
       \/ (lastOp.name = "drag" /\ OverId \notin IdsOf(lastOp.list)))) =>
    ~lastOp.threw

---------------------------------------------------------------------------
(* Properties of the edits, checked under SpecChange *)

\* C20: every edit applied to an existing block yields a block with the same
\* id and the same type tag; after any sequence of edits each block still has
\* the id and the type it was created with
C20_IdAndTypeStable ==
  /\ Len(blocks) = Len(born)
  /\ \A i \in 1..Len(blocks) :
       /\ Get(blocks[i], "id") = born[i].id
       /\ Get(blocks[i], "type") = born[i].type

---------------------------------------------------------------------------
(* Properties of the request handlers *)

\* a step that served a GET /api/posts wrote data.json
Wrote == writes' = writes + 1

\* C21: GET /api/posts writes the data file if and only if
\* migratePostsIfNeeded returned changed = true, what it writes is the data
\* the normalizer returned, and a GET that follows a GET with no write in
\* between performs no write and leaves the store as it is
C21_WritesOnlyOnChange ==
  [][calls' = calls + 1 =>
       /\ Wrote <=> lastOut'.changed
       /\ Wrote => store' = lastOut'.data
       /\ ~Wrote => (writes' = writes /\ store' = store)
       /\ calls >= 1 => (~Wrote /\ store' = store)]_vars

\* a first GET that wrote the migrated posts, and a second GET that did not write
C21_Witness ==
  /\ calls = 2
  /\ writes = 1
  /\ ~lastOut.changed
  /\ Len(postsOf(store)) >= 1

\* the posts and sections data.json held when the last request arrived, and
\* those it holds now
Before == postsOf(lastIn)
After == postsOf(store)

\* String(p.id) of a post
IdOf(p) == ToStr(Get(p, "id"))

\* the positions of the posts in a list whose id, as a string, is id
Matching(posts, id) == {k \in 1..Len(posts) : IdOf(posts[k]) = id}

\* the last request was a save of a post that succeeded
Saved == req.method \in {"POST", "PUT"} /\ res.status = 200

\* the post the last save stored: POST pushes it to the end of the posts, PUT
\* puts it where the post with the request's id is
StoredPostOf ==
  IF req.method = "POST" THEN After[Len(After)]
  ELSE After[CHOOSE k \in Matching(After, req.id) : TRUE]

\* the body carries a block sequence: blocks is an array, or a string that is
\* the JSON text of an array
GaveSequence(body) == IsArray(Get(body, "blocks")) \/ ParsesToSeq(Get(body, "blocks"))

\* the sequence it carries
GivenSequence(body) ==
  IF IsArray(Get(body, "blocks")) THEN Get(body, "blocks") ELSE SeqOf(Get(body, "blocks"))

\* C22: whenever POST /api/posts or PUT /api/posts/:id receives a block
\* sequence, as an array or as an encoded string, the stored post's blocks are
\* that sequence and its content is the extractor's text of those blocks
C22_ContentRegenerated ==
  (Saved /\ GaveSequence(req.body)) =>
    /\ Get(StoredPostOf, "blocks") = GivenSequence(req.body)
    /\ Get(StoredPostOf, "content")
         = Str(extractPlainTextFromBlocks(Get(StoredPostOf, "blocks")))

\* a POST of an encoded sequence and a PUT of an array beside stale content
C22_Witness ==
  /\ calls = 2
  /\ req.method = "PUT"
  /\ res.status = 200
  /\ req.body = ArrayUpload.body
  /\ Get(StoredPostOf, "content") = Str(<<"Title", "\n", "B">>)
  /\ \E k \in 1..Len(After) :
       /\ Get(After[k], "blocks") = Arr(<<Grid(<<Heading(<<"A">>)>>)>>)
       /\ Get(After[k], "content") = Str(<<"A">>)

\* the post ids of a list are pairwise distinct, compared as strings
DistinctIds(posts) ==
  \A i, j \in 1..Len(posts) : i # j => IdOf(posts[i]) # IdOf(posts[j])

\* the id a POST asks for: the body's id as a string without the white space
\* around it, or today's date when the body has none
Requested ==
  IF Get(req.body, "id") # Undef /\ Trim(ToStr(Get(req.body, "id"))) # <<>>
  THEN Trim(ToStr(Get(req.body, "id")))
  ELSE req.day

\* base-n
Numbered(base, n) == base \o <<"-">> \o NumSyms(n)

\* C23: post ids stay pairwise distinct (compared as strings) under POST, PUT
\* and DELETE; a POST keeps every stored post as it was and adds its post
\* under the requested id, or, when that id is taken, under the first unused
\* id among base-2, base-3, ...
C23_IdsStayUnique ==
  /\ DistinctIds(After)
  /\ (req.method = "POST") =>
       /\ Len(After) = Len(Before) + 1
       /\ SubSeq(After, 1, Len(Before)) = Before
       /\ Get(After[Len(After)], "id").t = "str"
       /\ IF Matching(Before, Requested) = {}
          THEN IdOf(After[Len(After)]) = Requested
          ELSE \E n \in 2..(Len(Before) + 2) :
                 /\ IdOf(After[Len(After)]) = Numbered(Requested, n)
                 /\ Matching(Before, Numbered(Requested, n)) = {}
                 /\ \A m \in 2..(n - 1) : Matching(Before, Numbered(Requested, m)) # {}

\* a POST asking for id a while a and a-2 are stored: the post is stored as a-3
C23_Witness ==
  /\ req.method = "POST"
  /\ Requested = <<"a">>
  /\ Matching(Before, <<"a">>) # {}
  /\ Matching(Before, <<"a", "-", "2">>) # {}
  /\ IdOf(After[Len(After)]) = <<"a", "-", "3">>

\* C24: the blocks of a post stored by POST /api/posts or PUT /api/posts/:id
\* are null or a sequence, whatever the request body
C24_BlocksNullOrSequence ==
  Saved => (Get(StoredPostOf, "blocks") = Null \/ IsArray(Get(StoredPostOf, "blocks")))

\* the list without the posts whose id, as a string, is id
WithoutId(posts, id) == SelectSeq(posts, LAMBDA p : IdOf(p) # id)

\* a step served a PUT or DELETE on a post
OnPost == calls' = calls + 1 /\ req'.method \in {"PUT", "DELETE"}

\* C26: PUT and DELETE /api/posts/:id for an id that matches no stored post
\* answer 404 and leave the store unchanged, without a write; a DELETE whose
\* id matches answers 200, removes the one matching post and leaves the other
\* posts, in order, and the sections as they were
C26_AbsentIs404 ==
  [][OnPost =>
       /\ Matching(postsOf(store), req'.id) = {} =>
            (res'.status = 404 /\ store' = store /\ writes' = writes)
       /\ (Matching(postsOf(store), req'.id) # {} /\ req'.method = "DELETE") =>
            /\ res'.status = 200
            /\ Cardinality(Matching(postsOf(store), req'.id)) = 1
            /\ postsOf(store') = WithoutId(postsOf(store), req'.id)
            /\ Len(postsOf(store')) = Len(postsOf(store)) - 1
            /\ sectionsOf(store') = sectionsOf(store)]_vars

\* post a of three was deleted, the other two are left in order, and a PUT
\* on a then got 404
C26_Witness ==
  /\ calls = 2
  /\ writes = 1
  /\ req.method = "PUT"
  /\ req.id = <<"a">>
  /\ res.status = 404
  /\ After = <<SeedPosts[2], SeedPosts[3]>>
  /\ store = lastIn

\* v is the number a request's :id begins with: its leading digits
Denotes(v, id) ==
  /\ v.t = "num"
  /\ \E k \in 1..Len(id) :
       /\ NumSyms(v.n) = SubSeq(id, 1, k)
       /\ (k = Len(id) \/ id[k + 1] \notin DigitSet)

\* the section, or the post, is one of the section the request names
Named(v) == Denotes(v, req.id)

\* C27: after DELETE /api/sections/:id the store holds no section with that
\* id and no post whose sectionId is that id, and every other section and
\* every post of another section is kept unchanged and in order
C27_SectionCascade ==
  (req.method = "DELETE section") =>
    /\ res.status = 200
    /\ \A k \in 1..Len(sectionsOf(store)) : ~Named(Get(sectionsOf(store)[k], "id"))
    /\ \A k \in 1..Len(After) : ~Named(Get(After[k], "sectionId"))
    /\ sectionsOf(store)
         = SelectSeq(sectionsOf(lastIn), LAMBDA x : ~Named(Get(x, "id")))
    /\ After = SelectSeq(Before, LAMBDA p : ~Named(Get(p, "sectionId")))

\* section 1 with two of three posts was deleted: section 2 and its post are left
C27_Witness ==
  /\ req.method = "DELETE section"
  /\ req.id = <<"1">>
  /\ Len(sectionsOf(lastIn)) = 2
  /\ Len(Before) = 3
  /\ sectionsOf(store) = <<Section(2)>>
  /\ After = <<SeedPosts[2]>>

---------------------------------------------------------------------------
(* Properties of migratePostsIfNeeded on objects, checked under SpecMigrate *)

\* the data migratePostsIfNeeded returned, and its posts
Returned == Deref(heap, ret.data)
ReturnedPosts == postsOf(Returned)

\* the properties of an object other than blocks and content
OtherFields(o) == DOMAIN o.f \ {<<"blocks">>, <<"content">>}

\* C25: migratePostsIfNeeded does not modify its argument: after the call the
\* input data object, its posts array and each input post object are what
\* they were (the same blocks and content, and every other property), and
\* the result has as many posts, in the same order, each with every property
\* other than blocks and content as in the input
C25_ArgumentUntouched ==
  ret.called =>
    /\ \A k \in 1..Len(Load(store)) : heap[k] = Load(store)[k]
    /\ Deref(heap, Ref(1)) = store
    /\ ret.data # Ref(1)
    /\ OtherFields(Returned) \ {<<"posts">>} = OtherFields(store) \ {<<"posts">>}
    /\ \A x \in OtherFields(store) \ {<<"posts">>} : Returned.f[x] = store.f[x]
    /\ Len(ReturnedPosts) = Len(postsOf(store))
    /\ \A i \in 1..Len(postsOf(store)) :
         /\ OtherFields(ReturnedPosts[i]) = OtherFields(postsOf(store)[i])
         /\ \A x \in OtherFields(postsOf(store)[i]) :
              ReturnedPosts[i].f[x] = postsOf(store)[i].f[x]

\* a call that migrated the second of two posts: the result differs from the
\* argument in that post's blocks
C25_Witness ==
  /\ ret.called
  /\ ret.changed
  /\ Len(postsOf(store)) = 2
  /\ IsString(Get(postsOf(store)[2], "blocks"))
  /\ IsArray(Get(ReturnedPosts[2], "blocks"))
  /\ Get(ReturnedPosts[1], "blocks") = Get(postsOf(store)[1], "blocks")

\* the call on objects returns what the call on values returns
HeapAgrees ==
  ret.called =>
    /\ Returned = migratePostsIfNeeded(store).data
    /\ ret.changed = migratePostsIfNeeded(store).changed

=============================================================================
